---- MODULE Spec2Model ----
(***************************************************************************)
(* Model of the Modbus-over-LoRaWAN payload formatter.                     *)
(*                                                                         *)
(* decodeUplink (src/uplinkPayloadFormatter.js) is modelled as a state     *)
(* machine: byte extraction, header parsing, one action per branch of the  *)
(* register loop, and the final return.  JavaScript numbers are modelled   *)
(* by what the operators of the source do to them: reads outside the byte  *)
(* array give undefined, bitwise operators work on 32-bit signed integers, *)
(* + and * propagate NaN.                                                  *)
(***************************************************************************)
EXTENDS Integers, Sequences, FiniteSets, TLC

(***************************************************************************)
(* Bounds of the model.                                                    *)
(***************************************************************************)
\* Longest generated register region (bytes after the 3-byte header).
MaxData == 4
\* Largest generated byteCount header field.
MaxByteCount == 5
\* Longest generated Base64 text (characters).
MaxB64Len == 2
\* Longest generated values array of encodeDownlink.
MaxVals == 2

(***************************************************************************)
(* JavaScript values.  A number n is kept as hi * 65536 + lo (0 <= lo <    *)
(* 65536) divided by den, so that 32-bit quantities and the results of     *)
(* rawValue - 0x100000000 stay representable.                              *)
(***************************************************************************)
Word == 65536

Undefined == [k |-> "undefined", hi |-> 0, lo |-> 0, den |-> 1]

NaN == [k |-> "NaN", hi |-> 0, lo |-> 0, den |-> 1]

\* The number hi * 65536 + lo, normalised.  (Here and below an operand is
\* bound through a singleton set so that it is evaluated once, also where
\* the operator is evaluated inside ENABLED.)
Mk(hi, lo) ==
  CHOOSE r \in {[k |-> "number", hi |-> h + (l \div Word), lo |-> l % Word, den |-> 1] :
                  h \in {hi}, l \in {lo}} : TRUE

\* A number literal of magnitude below 2^31.
Number(n) == Mk(0, n)

IsNumber(x) == x.k = "number"

RECURSIVE Pow2(_)
Pow2(n) == IF n = 0 THEN 1 ELSE 2 * Pow2(n - 1)

\* ToInt32 of the language: undefined and NaN become 0, numbers wrap to
\* -2^31 .. 2^31 - 1.
ToInt32(x) ==
  CHOOSE r \in {IF ~IsNumber(v) THEN Mk(0, 0)
                 ELSE Mk(IF v.hi % Word >= 32768 THEN (v.hi % Word) - Word
                         ELSE v.hi % Word, v.lo) : v \in {x}} : TRUE

RECURSIVE BitsAnd(_, _, _)
BitsAnd(a, b, n) ==
  IF n = 0 THEN 0
  ELSE (a % 2) * (b % 2) + 2 * BitsAnd(a \div 2, b \div 2, n - 1)

RECURSIVE BitsOr(_, _, _)
BitsOr(a, b, n) ==
  IF n = 0 THEN 0
  ELSE (IF (a % 2) + (b % 2) > 0 THEN 1 ELSE 0) + 2 * BitsOr(a \div 2, b \div 2, n - 1)

\* x & y
BitAnd(x, y) ==
  CHOOSE r \in {ToInt32(Mk(BitsAnd(a.hi % Word, b.hi % Word, 16),
                            BitsAnd(a.lo, b.lo, 16))) :
                  a \in {ToInt32(x)}, b \in {ToInt32(y)}} : TRUE

\* x | y
BitOr(x, y) ==
  CHOOSE r \in {ToInt32(Mk(BitsOr(a.hi % Word, b.hi % Word, 16),
                            BitsOr(a.lo, b.lo, 16))) :
                  a \in {ToInt32(x)}, b \in {ToInt32(y)}} : TRUE

\* x << n
Shl(x, n) ==
  CHOOSE r \in {IF s >= 16
                 THEN ToInt32(Mk((a.lo * Pow2(s - 16)) % Word, 0))
                 ELSE ToInt32(Mk(((a.hi % Word) * Pow2(s)
                                   + ((a.lo * Pow2(s)) \div Word)) % Word,
                                 (a.lo * Pow2(s)) % Word)) :
                  a \in {ToInt32(x)}, s \in {n % 32}} : TRUE

\* x >> n (sign-propagating)
Shr(x, n) ==
  CHOOSE r \in {Mk(0, (a.hi * Word + a.lo) \div Pow2(n % 32)) :
                  a \in {ToInt32(x)}} : TRUE

\* x + y on numbers; undefined or NaN operands give NaN.
Add(x, y) ==
  IF IsNumber(x) /\ IsNumber(y) THEN Mk(x.hi + y.hi, x.lo + y.lo) ELSE NaN

\* x - y on numbers.
Sub(x, y) ==
  IF IsNumber(x) /\ IsNumber(y) THEN Mk(x.hi - y.hi, x.lo - y.lo) ELSE NaN

\* x * c for a non-negative integer constant c.
Times(x, c) ==
  IF IsNumber(x)
  THEN Mk(x.hi * c + x.lo * (c \div Word), x.lo * (c % Word))
  ELSE NaN

\* x / s for a positive integer s: the quotient is kept as a fraction.
Div(x, s) == IF IsNumber(x) THEN [x EXCEPT !.den = x.den * s] ELSE NaN

\* Truthiness of a number.
Truthy(x) == IsNumber(x) /\ ~(x.hi = 0 /\ x.lo = 0)

\* x !== 0
NotZero(x) == ~(IsNumber(x) /\ x.hi = 0 /\ x.lo = 0)

\* The literals 0x8000, 0x10000, 0x80000000 and 0x100000000 of the source.
Hex8000 == Mk(0, 32768)

Hex10000 == Mk(1, 0)

Hex80000000 == Mk(32768, 0)

Hex100000000 == Mk(65536, 0)

\* The integer value of a number that fits in 31 bits (used for the
\* header fields, which are single bytes).
Small(x) == x.hi * Word + x.lo

\* bytes[i] with a zero-based index: undefined outside the array.
At(b, i) == IF i >= 0 /\ i < Len(b) THEN Number(b[i + 1]) ELSE Undefined

(***************************************************************************)
(* Base64 text is a sequence of character codes: 0..63 are the alphabet    *)
(* characters by value, Pad is '=', Space is ASCII whitespace and Bad is   *)
(* any other character.                                                    *)
(***************************************************************************)
Pad == 64

Space == 65

Bad == 66

StripSpace(s) == SelectSeq(s, LAMBDA c : c # Space)

\* One or two trailing '=' are dropped when the length is a multiple of 4.
StripPad(s) ==
  LET n == Len(s)
  IN  IF n > 0 /\ n % 4 = 0 /\ s[n] = Pad
      THEN IF s[n - 1] = Pad THEN SubSeq(s, 1, n - 2) ELSE SubSeq(s, 1, n - 1)
      ELSE s

RECURSIVE DecodeSextets(_)
DecodeSextets(s) ==
  IF Len(s) >= 4
  THEN LET v == ((s[1] * 64 + s[2]) * 64 + s[3]) * 64 + s[4]
       IN  <<v \div 65536, (v \div 256) % 256, v % 256>>
             \o DecodeSextets(SubSeq(s, 5, Len(s)))
  ELSE IF Len(s) = 3
  THEN LET v == ((s[1] * 64 + s[2]) * 64 + s[3]) \div 4
       IN  <<v \div 256, v % 256>>
  ELSE IF Len(s) = 2
  THEN <<(s[1] * 64 + s[2]) \div 16>>
  ELSE <<>>

\* atob: the binary string as a sequence of character codes, or a thrown
\* exception (ok = FALSE) for text that is not Base64.
atob(b64) ==
  LET u == StripPad(StripSpace(b64))
  IN  IF Len(u) % 4 = 1 \/ (\E i \in 1..Len(u) : u[i] > 63)
      THEN [ok |-> FALSE, v |-> <<>>]
      ELSE [ok |-> TRUE, v |-> DecodeSextets(u)]

\* base64ToBytes: Array.from(binary, c => c.charCodeAt(0)).
base64ToBytes(b64) ==
  LET binary == atob(b64)
  IN  [binary EXCEPT !.v = [i \in 1..Len(binary.v) |-> binary.v[i]]]

(***************************************************************************)
(* The register catalog.                                                   *)
(***************************************************************************)
NoBitmask == [present |-> FALSE, table |-> [b \in {} |-> ""]]

Bitmask(t) == [present |-> TRUE, table |-> t]

Def(name, type, scale, endian) ==
  [name |-> name, type |-> type, scale |-> scale, endian |-> endian,
   bitmask |-> NoBitmask]

DefMask(name, type, scale, endian, t) ==
  [name |-> name, type |-> type, scale |-> scale, endian |-> endian,
   bitmask |-> Bitmask(t)]

\* The two devices of the source.
SourceMap ==
  1 :> ( 0 :> Def("temperature", "int16", 1000, "big")
      @@ 1 :> DefMask("status", "uint16", 1, "big",
                      0 :> "system_ok" @@ 1 :> "heater_on" @@ 2 :> "fan_on"
                      @@ 3 :> "error_flag" @@ 4 :> "maintenance_required")
      @@ 2 :> Def("energy_total", "uint32", 1, "big") )
  @@
  2 :> ( 0 :> Def("co2", "uint16", 1, "big")
      @@ 1 :> Def("voc", "float32", 1, "mixed")
      @@ 3 :> Def("power", "int32", 10, "little") )

\* The device the documentation adds at address 7.
ReadmeMap ==
  7 :> ( 0 :> Def("pressure", "float32", 1, "big")
      @@ 2 :> Def("power", "int32", 100, "little") )

\* Further devices written in the documented register definition format,
\* one for each remaining combination of type and byte order.
VariantMap ==
  10 :> ( 0 :> Def("u32m", "uint32", 1, "mixed") )
  @@
  11 :> ( 0 :> Def("i32m", "int32", 1, "mixed") )
  @@
  12 :> ( 0 :> Def("i32b", "int32", 1, "big") )
  @@
  13 :> ( 0 :> Def("u32l", "uint32", 10, "little") )
  @@
  14 :> ( 0 :> Def("i16l", "int16", 10, "little")
       @@ 1 :> Def("u16l", "uint16", 100, "little") )
  @@
  15 :> ( 0 :> Def("f32l", "float32", 1, "little") )
  @@
  16 :> ( 0 :> Def("text", "string", 1, "big")
       @@ 1 :> DefMask("flags", "uint16", 1000, "big",
                       0 :> "system_ok" @@ 1 :> "heater_on" @@ 2 :> "fan_on"
                       @@ 3 :> "error_flag")
       @@ 2 :> DefMask("high", "uint16", 1, "little",
                       8 :> "bit8" @@ 15 :> "bit15") )
  @@
  17 :> ( 0 :> Def("u32b", "uint32", 1, "big") )

deviceMap == SourceMap @@ ReadmeMap @@ VariantMap

\* deviceMap[slaveAddress] || {}
SelectMap(addr) ==
  IF addr \in DOMAIN deviceMap THEN deviceMap[addr] ELSE [i \in {} |-> 0]

(***************************************************************************)
(* The per-type value reconstruction of the register loop.  A window is    *)
(* the sequence of values read from bytes[offset], bytes[offset + 1], ...  *)
(***************************************************************************)
\* if (map.endian === "little") [hi, lo] = [lo, hi]
Reorder16(w, endian) == IF endian = "little" THEN <<w[2], w[1]>> ELSE w

\* uint32 and int32: if (map.endian === "little") reverse the four bytes
Reorder32(w, endian) ==
  IF endian = "little" THEN <<w[4], w[3], w[2], w[1]>> ELSE w

\* float32: little reverses the bytes, mixed swaps the two words
ReorderFloat32(w, endian) ==
  LET v == IF endian = "little" THEN <<w[4], w[3], w[2], w[1]>> ELSE w
  IN  IF endian = "mixed" THEN <<v[3], v[4], v[1], v[2]>> ELSE v

\* Variant of FallbackRaw: the two bytes combined low byte first.
FallbackRawSwapped(w) == BitOr(Shl(w[2], 8), w[1])

\* Unknown register: raw = (bytes[offset] << 8) | bytes[offset + 1]
FallbackRaw(w) == BitOr(Shl(w[1], 8), w[2])

\* rawValue = (hi << 8) | lo
Uint16Raw(w) == BitOr(Shl(w[1], 8), w[2])

\* Variant of Int16Raw: the sign conversion left out.
Int16RawUnsigned(w) == BitOr(Shl(w[1], 8), w[2])

\* rawValue = (hi << 8) | lo; if (rawValue & 0x8000) rawValue -= 0x10000
Int16Raw(w) ==
  LET r == BitOr(Shl(w[1], 8), w[2])
  IN  IF Truthy(BitAnd(r, Hex8000)) THEN Sub(r, Hex10000) ELSE r

\* Variant of Uint32Raw: the top byte placed with b0 << 24.
Uint32RawShifted(w) ==
  Add(Add(Add(Shl(w[1], 24), Shl(w[2], 16)), Shl(w[3], 8)), w[4])

\* rawValue = (b0 * 16777216) + (b1 << 16) + (b2 << 8) + b3
Uint32Raw(w) ==
  Add(Add(Add(Times(w[1], 16777216), Shl(w[2], 16)), Shl(w[3], 8)), w[4])

\* rawValue = (b0 << 24) | (b1 << 16) | (b2 << 8) | b3;
\* if (rawValue & 0x80000000) rawValue -= 0x100000000
Int32Raw(w) ==
  LET r == BitOr(BitOr(BitOr(Shl(w[1], 24), Shl(w[2], 16)), Shl(w[3], 8)), w[4])
  IN  IF Truthy(BitAnd(r, Hex80000000)) THEN Sub(r, Hex100000000) ELSE r

\* view.setUint8(i, b): undefined is stored as 0
ToUint8(x) == IF IsNumber(x) THEN x.lo % 256 ELSE 0

\* view.getFloat32(0, false): the binary32 number with the bit pattern
\* b0 b1 b2 b3, kept as its two 16-bit halves.
Float32Val(w) ==
  [k |-> "float32", hi |-> ToUint8(w[1]) * 256 + ToUint8(w[2]),
   lo |-> ToUint8(w[3]) * 256 + ToUint8(w[4]), den |-> 1]

\* floatVal / map.scale
DivFloat(x, s) == [x EXCEPT !.den = x.den * s]

\* Variant of BitmaskFlags: the bit index used as the mask (rawValue & bit).
BitmaskFlagsNoShift(raw, table) ==
  LET names == {table[b] : b \in DOMAIN table}
      last(n) == CHOOSE b \in DOMAIN table :
                   /\ table[b] = n
                   /\ \A c \in DOMAIN table : table[c] = n => c <= b
  IN  [k |-> "object",
       flags |-> [n \in names |-> NotZero(BitAnd(raw, Number(last(n))))]]

\* for (const bit in map.bitmask) statusObj[name] = (rawValue & (1 << bit)) !== 0
BitmaskFlags(raw, table) ==
  LET names == {table[b] : b \in DOMAIN table}
      last(n) == CHOOSE b \in DOMAIN table :
                   /\ table[b] = n
                   /\ \A c \in DOMAIN table : table[c] = n => c <= b
  IN  [k |-> "object",
       flags |-> [n \in names |-> NotZero(BitAnd(raw, Shl(Number(1), last(n))))]]

\* result[name] = v
Put(r, name, v) ==
  [n \in DOMAIN r \cup {name} |-> IF n = name THEN v ELSE r[n]]

\* `register_${regIndex}`
RegisterName(i) == "register_" \o ToString(i)

(***************************************************************************)
(* Inputs.                                                                 *)
(***************************************************************************)
SeqsUpTo(S, n) == UNION {[1..k -> S] : k \in 0..n}

\* Byte values of the generated register regions.
ByteVals == {0, 1, 128, 255}

\* Slave addresses of the generated frames: every catalogued device and
\* one address without a register table.
Unmapped == 9

Addresses == DOMAIN deviceMap \cup {Unmapped}

\* Generated frames: a header cut short, or a whole header followed by a
\* register region of every length up to MaxData.
ShortFrames ==
  {<<a>> : a \in Addresses} \cup {<<a, 3>> : a \in Addresses}

\* Frames of the documentation and frames long enough to walk a whole
\* register table.
ExampleFrames ==
  { <<1, 3, 2, 255, 156>>,
    <<1, 3, 8, 76, 8, 0, 22, 0, 1, 134, 160>>,
    <<1, 3, 8, 255, 156, 0, 6, 255, 255, 255, 255>>,
    <<1, 3, 6, 255, 156, 0, 6, 0, 1>>,
    <<1, 3, 6, 255, 156, 0, 6, 0, 1, 0, 2>>,
    <<2, 3, 12, 3, 44, 0, 0, 63, 128, 0, 7, 16, 0, 0, 0>>,
    <<2, 3, 10, 3, 44, 0, 0, 63, 128, 16, 0, 0, 0>>,
    <<7, 3, 8, 66, 200, 0, 0, 80, 195, 0, 0>>,
    <<10, 3, 4, 0, 1, 0, 2>>,
    <<11, 3, 4, 0, 1, 0, 2>>,
    <<15, 3, 4, 0, 0, 128, 63>>,
    <<16, 3, 2, 0, 6>>,
    <<16, 3, 4, 0, 6, 128, 1>>,
    <<9, 131, 2, 0, 1>>,
    <<9, 3, 255, 1, 2>> }

\* "AQMC/5w=" is the documented Base64 form of 01 03 02 FF 9C.
ExampleTexts ==
  { <<0, 16, 12, 2, 63, 57, 48, Pad>>,
    <<0, 16, 12, 2, 63, 57, 48>>,
    <<0, 16, 12, 2, Space, 63, 57, 48, Pad>>,
    <<0, 16, 12, 2, Pad>> }

B64Texts == SeqsUpTo({0, 16, Pad, Space, Bad}, MaxB64Len) \cup ExampleTexts

\* The argument with input.bytes = f and no text field.
FromBytes(f) ==
  [bytes |-> [present |-> TRUE, v |-> f], frm_payload |-> <<>>, payload_raw |-> <<>>]

\* The arguments of the model.  input.bytes may be absent; an absent or
\* empty text field is <<>>.
IsInput(i) ==
  \/ \E a \in Addresses, bc \in 0..MaxByteCount, n \in 0..MaxData :
       \E d \in [1..n -> ByteVals] : i = FromBytes(<<a, 3, bc>> \o d)
  \/ \E f \in ShortFrames \cup ExampleFrames : i = FromBytes(f)
  \/ \E t \in ExampleTexts \cup {<<Bad>>} :
       i = [bytes |-> [present |-> TRUE, v |-> <<9, 3, 2, 0, 1>>],
            frm_payload |-> t, payload_raw |-> t]
  \/ \E p \in BOOLEAN, t1 \in B64Texts, t2 \in B64Texts :
       i = [bytes |-> [present |-> p, v |-> <<>>], frm_payload |-> t1,
            payload_raw |-> t2]

(***************************************************************************)
(* State of one call of decodeUplink.                                      *)
(***************************************************************************)
VARIABLES
  input,         \* the argument
  pc,            \* "extract", "header", "loop", "done" or "thrown"
  bytes,         \* let bytes
  slaveAddress,  \* const slaveAddress
  functionCode,  \* const functionCode
  byteCount,     \* const byteCount
  registerMap,   \* const registerMap
  result,        \* const result
  offset,        \* let offset
  regIndex,      \* let regIndex
  it,            \* locals of the last loop iteration
  ret,           \* the returned object
  cs             \* the call of the TTN/ChirpStack decoder on the same argument

(***************************************************************************)
(* State of one call of encodeDownlink.                                    *)
(***************************************************************************)
VARIABLES
  einput,        \* the argument
  epc,           \* "idle", "validate", "dispatch", "values" or "done"
  ebytes,        \* var bytes
  ei,            \* var i
  eret           \* the returned object

decVars == <<input, pc, bytes, slaveAddress, functionCode, byteCount,
             registerMap, result, offset, regIndex, it, ret, cs>>

encVars == <<einput, epc, ebytes, ei, eret>>

vars == <<decVars, encVars>>

\* No call of encodeDownlink is in progress.
NoEncInput ==
  [slaveAddress |-> Undefined, functionCode |-> Undefined,
   register |-> Undefined, values |-> [present |-> FALSE, v |-> <<>>]]

NoEncReturn == [keys |-> {}, bytes |-> <<>>, errors |-> <<>>]

EncIdle ==
  /\ einput = NoEncInput
  /\ epc = "idle"
  /\ ebytes = <<>>
  /\ ei = 0
  /\ eret = NoEncReturn

EmptyMap == [i \in {} |-> 0]

NoReturn == [keys |-> {}, data |-> EmptyMap, errors |-> <<>>]

\* Locals of an iteration: the branch taken, regIndex and offset at its
\* start, the values read from bytes, the reordered window and rawValue.
NoIteration ==
  [kind |-> "none", regIndex |-> 0, offset |-> 0, read |-> <<>>, w |-> <<>>,
   rawValue |-> Undefined]

(***************************************************************************)
(* The TTN/ChirpStack decoder (src/unnamed/part_000).  Its call is a       *)
(* record with one field per local of the function; CsStep is one step of  *)
(* the call: the extraction, the header, one loop iteration or the return. *)
(***************************************************************************)
CsNoPayloadText ==
  "No payload bytes found. ChirpStack always provides raw bytes. TTN may provide empty payloads."

\* The call before its first statement.
CsStart(i) ==
  [pc |-> "extract", bytes |-> i.bytes, slaveAddress |-> Undefined,
   functionCode |-> Undefined, byteCount |-> Undefined,
   registerMap |-> EmptyMap, result |-> EmptyMap, offset |-> 0,
   regIndex |-> 0, ret |-> NoReturn]

\* !bytes || bytes.length === 0
CsMissing(b) == ~b.present \/ Len(b.v) = 0

\* The TTN V3 and TTN V2 fallbacks, in order.
CsExtracted(i) ==
  LET d1 == base64ToBytes(i.frm_payload)
      use1 == CsMissing(i.bytes) /\ i.frm_payload # <<>>
      b1 == IF use1 /\ d1.ok THEN [present |-> TRUE, v |-> d1.v] ELSE i.bytes
      d2 == base64ToBytes(i.payload_raw)
      use2 == CsMissing(b1) /\ i.payload_raw # <<>>
      b2 == IF use2 /\ d2.ok THEN [present |-> TRUE, v |-> d2.v] ELSE b1
  IN  [thrown |-> (use1 /\ ~d1.ok) \/ (use2 /\ ~d2.ok), bytes |-> b2]

\* while (offset < 3 + byteCount)
CsLoopCond(s) == IsNumber(s.byteCount) /\ s.offset < 3 + Small(s.byteCount)

\* bytes[offset + i]
CsByte(s, i) == At(s.bytes.v, s.offset + i)

\* let hi, lo; if (map.endian === "little") [hi, lo] = [lo, hi]
CsPair(s, endian) ==
  IF endian = "little" THEN <<CsByte(s, 1), CsByte(s, 0)>>
  ELSE <<CsByte(s, 0), CsByte(s, 1)>>

\* let b0, b1, b2, b3; if (map.endian === "little") they are reversed
CsQuad(s, endian) ==
  IF endian = "little"
  THEN <<CsByte(s, 3), CsByte(s, 2), CsByte(s, 1), CsByte(s, 0)>>
  ELSE <<CsByte(s, 0), CsByte(s, 1), CsByte(s, 2), CsByte(s, 3)>>

\* Variant of CsFloatQuad: the word swap of "mixed" left out.
CsFloatQuadNoMixed(s, endian) == CsQuad(s, endian)

\* float32: after the reversal, "mixed" swaps the two words
CsFloatQuad(s, endian) ==
  IF endian = "mixed"
  THEN <<CsByte(s, 2), CsByte(s, 3), CsByte(s, 0), CsByte(s, 1)>>
  ELSE CsQuad(s, endian)

\* for (const bit in map.bitmask)
\*   statusObj[map.bitmask[bit]] = (rawValue & (1 << bit)) !== 0
\* (bits are visited in ascending order: the highest bit of a name is kept)
CsFlags(raw, table) ==
  [k |-> "object",
   flags |-> [n \in {table[b] : b \in DOMAIN table} |->
                \E b \in DOMAIN table :
                  /\ table[b] = n
                  /\ \A c \in DOMAIN table : table[c] = n => c <= b
                  /\ NotZero(BitAnd(raw, Shl(Number(1), b)))]]

\* The branch of a recognised type: the value stored under map.name and
\* the number of bytes the cursor moves.
CsRegister(s, map) ==
  CASE map.type = "uint16" ->
         [n |-> 2,
          v |-> CHOOSE v \in
                  {IF map.bitmask.present THEN CsFlags(raw, map.bitmask.table)
                   ELSE Div(raw, map.scale) :
                     raw \in {BitOr(Shl(CsPair(s, map.endian)[1], 8),
                                    CsPair(s, map.endian)[2])}} : TRUE]
    [] map.type = "int16" ->
         [n |-> 2,
          v |-> CHOOSE v \in
                  {Div(IF Truthy(BitAnd(raw, Hex8000)) THEN Sub(raw, Hex10000)
                       ELSE raw, map.scale) :
                     raw \in {BitOr(Shl(CsPair(s, map.endian)[1], 8),
                                    CsPair(s, map.endian)[2])}} : TRUE]
    [] map.type = "uint32" ->
         [n |-> 4,
          v |-> CHOOSE v \in
                  {Div(Add(Add(Add(Times(q[1], 16777216), Shl(q[2], 16)),
                               Shl(q[3], 8)), q[4]), map.scale) :
                     q \in {CsQuad(s, map.endian)}} : TRUE]
    [] map.type = "int32" ->
         [n |-> 4,
          v |-> CHOOSE v \in
                  {Div(IF Truthy(BitAnd(raw, Hex80000000))
                       THEN Sub(raw, Hex100000000) ELSE raw, map.scale) :
                     raw \in {CHOOSE r \in
                                {BitOr(BitOr(BitOr(Shl(q[1], 24), Shl(q[2], 16)),
                                             Shl(q[3], 8)), q[4]) :
                                   q \in {CsQuad(s, map.endian)}} : TRUE}} : TRUE]
    [] map.type = "float32" ->
         [n |-> 4,
          v |-> DivFloat(Float32Val(CsFloatQuad(s, map.endian)), map.scale)]

\* One pass through the body of the while loop.
CsIteration(s) ==
  IF s.regIndex \notin DOMAIN s.registerMap
  THEN [s EXCEPT !.result = Put(@, RegisterName(s.regIndex),
                                BitOr(Shl(CsByte(s, 0), 8), CsByte(s, 1))),
                 !.offset = @ + 2,
                 !.regIndex = @ + 1]
  ELSE IF s.registerMap[s.regIndex].type
            \in {"uint16", "int16", "uint32", "int32", "float32"}
  THEN CHOOSE t \in
         {[s EXCEPT !.result = Put(@, s.registerMap[s.regIndex].name, r.v),
                    !.offset = @ + r.n,
                    !.regIndex = @ + 1] :
            r \in {CsRegister(s, s.registerMap[s.regIndex])}} : TRUE
  ELSE [s EXCEPT !.regIndex = @ + 1]

\* One step of the call on the argument i.
CsStep(s, i) ==
  CASE s.pc = "extract" ->
         IF CsExtracted(i).thrown THEN [s EXCEPT !.pc = "thrown"]
         ELSE [s EXCEPT !.pc = "header", !.bytes = CsExtracted(i).bytes]
    [] s.pc = "header" ->
         IF CsMissing(s.bytes)
         THEN [s EXCEPT !.pc = "done",
                        !.ret = [keys |-> {"errors"}, data |-> EmptyMap,
                                 errors |-> <<CsNoPayloadText>>]]
         ELSE [s EXCEPT !.pc = "loop",
                        !.slaveAddress = At(s.bytes.v, 0),
                        !.functionCode = At(s.bytes.v, 1),
                        !.byteCount = At(s.bytes.v, 2),
                        !.registerMap = SelectMap(Small(At(s.bytes.v, 0))),
                        !.result = EmptyMap,
                        !.offset = 3,
                        !.regIndex = 0]
    [] s.pc = "loop" ->
         IF CsLoopCond(s) THEN CsIteration(s)
         ELSE [s EXCEPT !.pc = "done",
                        !.ret = [keys |-> {"data"},
                                 data |-> [slaveAddress |-> s.slaveAddress,
                                           functionCode |-> s.functionCode,
                                           values |-> s.result],
                                 errors |-> <<>>]]
    [] OTHER -> s

Init ==
  /\ IsInput(input)
  /\ pc = "extract"
  /\ bytes = input.bytes
  /\ slaveAddress = Undefined
  /\ functionCode = Undefined
  /\ byteCount = Undefined
  /\ registerMap = EmptyMap
  /\ result = EmptyMap
  /\ offset = 0
  /\ regIndex = 0
  /\ it = NoIteration
  /\ ret = NoReturn
  /\ cs = CsStart(input)
  /\ EncIdle

\* Variant of Missing: only !bytes, the length test left out.
MissingAbsentOnly(b) == ~b.present

\* !bytes || bytes.length === 0
Missing(b) == ~b.present \/ Len(b.v) = 0

\* The two Base64 fallbacks, in order: the bytes after them, or a thrown
\* exception of atob.
Extracted ==
  LET b0 == input.bytes
      d1 == base64ToBytes(input.frm_payload)
      use1 == Missing(b0) /\ input.frm_payload # <<>>
      b1 == IF use1 /\ d1.ok THEN [present |-> TRUE, v |-> d1.v] ELSE b0
      d2 == base64ToBytes(input.payload_raw)
      use2 == Missing(b1) /\ input.payload_raw # <<>>
      b2 == IF use2 /\ d2.ok THEN [present |-> TRUE, v |-> d2.v] ELSE b1
  IN  [thrown |-> (use1 /\ ~d1.ok) \/ (use2 /\ ~d2.ok), bytes |-> b2]

\* Section 1: bytes are taken from input.bytes or a Base64 field.
ExtractBytes ==
  /\ pc = "extract"
  /\ ~Extracted.thrown
  /\ bytes' = Extracted.bytes
  /\ pc' = "header"
  /\ UNCHANGED <<input, slaveAddress, functionCode, byteCount, registerMap,
                 result, offset, regIndex, it, ret>>
  /\ cs' = CsStep(cs, input)
  /\ UNCHANGED encVars

\* atob rejects the text: the call ends with an exception.
ExtractThrows ==
  /\ pc = "extract"
  /\ Extracted.thrown
  /\ pc' = "thrown"
  /\ UNCHANGED <<input, bytes, slaveAddress, functionCode, byteCount,
                 registerMap, result, offset, regIndex, it, ret>>
  /\ cs' = CsStep(cs, input)
  /\ UNCHANGED encVars

\* if (!bytes || bytes.length === 0) return { errors: [...] }
NoPayloadBytes ==
  /\ pc = "header"
  /\ Missing(bytes)
  /\ ret' = [keys |-> {"errors"}, data |-> EmptyMap,
             errors |-> <<"No payload bytes found.">>]
  /\ pc' = "done"
  /\ UNCHANGED <<input, bytes, slaveAddress, functionCode, byteCount,
                 registerMap, result, offset, regIndex, it>>
  /\ cs' = CsStep(cs, input)
  /\ UNCHANGED encVars

\* Sections 2 and 3: header fields, register table, cursor and index.
ParseHeader ==
  /\ pc = "header"
  /\ ~Missing(bytes)
  /\ slaveAddress' = At(bytes.v, 0)
  /\ functionCode' = At(bytes.v, 1)
  /\ byteCount' = At(bytes.v, 2)
  /\ registerMap' = SelectMap(Small(At(bytes.v, 0)))
  /\ result' = EmptyMap
  /\ offset' = 3
  /\ regIndex' = 0
  /\ pc' = "loop"
  /\ UNCHANGED <<input, bytes, it, ret>>
  /\ cs' = CsStep(cs, input)
  /\ UNCHANGED encVars

\* while (offset < 3 + byteCount): false when byteCount is undefined
LoopCond == IsNumber(byteCount) /\ offset < 3 + Small(byteCount)

\* The values of bytes[offset] .. bytes[offset + n - 1]
Window(n) == [i \in 1..n |-> At(bytes.v, offset + i - 1)]

HasMap == regIndex \in DOMAIN registerMap

Types == {"uint16", "int16", "uint32", "int32", "float32"}

\* if (!map): the register is stored raw under register_<index>
Fallback ==
  /\ pc = "loop" /\ LoopCond
  /\ ~HasMap
  /\ LET w == Window(2)
         raw == FallbackRaw(w)
     IN  /\ result' = Put(result, RegisterName(regIndex), raw)
         /\ it' = [kind |-> "fallback", regIndex |-> regIndex, offset |-> offset,
                   read |-> w, w |-> w, rawValue |-> raw]
  /\ offset' = offset + 2
  /\ regIndex' = regIndex + 1
  /\ UNCHANGED <<input, pc, bytes, slaveAddress, functionCode, byteCount,
                 registerMap, ret>>
  /\ cs' = CsStep(cs, input)
  /\ UNCHANGED encVars

DecodeUint16 ==
  /\ pc = "loop" /\ LoopCond
  /\ HasMap /\ registerMap[regIndex].type = "uint16"
  /\ LET map == registerMap[regIndex]
         w == Reorder16(Window(2), map.endian)
         raw == Uint16Raw(w)
     IN  /\ result' = Put(result, map.name,
                          IF map.bitmask.present
                          THEN BitmaskFlags(raw, map.bitmask.table)
                          ELSE Div(raw, map.scale))
         /\ it' = [kind |-> "uint16", regIndex |-> regIndex, offset |-> offset,
                   read |-> Window(2), w |-> w, rawValue |-> raw]
  /\ offset' = offset + 2
  /\ regIndex' = regIndex + 1
  /\ UNCHANGED <<input, pc, bytes, slaveAddress, functionCode, byteCount,
                 registerMap, ret>>
  /\ cs' = CsStep(cs, input)
  /\ UNCHANGED encVars

DecodeInt16 ==
  /\ pc = "loop" /\ LoopCond
  /\ HasMap /\ registerMap[regIndex].type = "int16"
  /\ LET map == registerMap[regIndex]
         w == Reorder16(Window(2), map.endian)
         raw == Int16Raw(w)
     IN  /\ result' = Put(result, map.name, Div(raw, map.scale))
         /\ it' = [kind |-> "int16", regIndex |-> regIndex, offset |-> offset,
                   read |-> Window(2), w |-> w, rawValue |-> raw]
  /\ offset' = offset + 2
  /\ regIndex' = regIndex + 1
  /\ UNCHANGED <<input, pc, bytes, slaveAddress, functionCode, byteCount,
                 registerMap, ret>>
  /\ cs' = CsStep(cs, input)
  /\ UNCHANGED encVars

DecodeUint32 ==
  /\ pc = "loop" /\ LoopCond
  /\ HasMap /\ registerMap[regIndex].type = "uint32"
  /\ LET map == registerMap[regIndex]
         w == Reorder32(Window(4), map.endian)
         raw == Uint32Raw(w)
     IN  /\ result' = Put(result, map.name, Div(raw, map.scale))
         /\ it' = [kind |-> "uint32", regIndex |-> regIndex, offset |-> offset,
                   read |-> Window(4), w |-> w, rawValue |-> raw]
  /\ offset' = offset + 4
  /\ regIndex' = regIndex + 1
  /\ UNCHANGED <<input, pc, bytes, slaveAddress, functionCode, byteCount,
                 registerMap, ret>>
  /\ cs' = CsStep(cs, input)
  /\ UNCHANGED encVars

DecodeInt32 ==
  /\ pc = "loop" /\ LoopCond
  /\ HasMap /\ registerMap[regIndex].type = "int32"
  /\ LET map == registerMap[regIndex]
         w == Reorder32(Window(4), map.endian)
         raw == Int32Raw(w)
     IN  /\ result' = Put(result, map.name, Div(raw, map.scale))
         /\ it' = [kind |-> "int32", regIndex |-> regIndex, offset |-> offset,
                   read |-> Window(4), w |-> w, rawValue |-> raw]
  /\ offset' = offset + 4
  /\ regIndex' = regIndex + 1
  /\ UNCHANGED <<input, pc, bytes, slaveAddress, functionCode, byteCount,
                 registerMap, ret>>
  /\ cs' = CsStep(cs, input)
  /\ UNCHANGED encVars

\* float32 leaves rawValue unassigned
DecodeFloat32 ==
  /\ pc = "loop" /\ LoopCond
  /\ HasMap /\ registerMap[regIndex].type = "float32"
  /\ LET map == registerMap[regIndex]
         w == ReorderFloat32(Window(4), map.endian)
     IN  /\ result' = Put(result, map.name, DivFloat(Float32Val(w), map.scale))
         /\ it' = [kind |-> "float32", regIndex |-> regIndex, offset |-> offset,
                   read |-> Window(4), w |-> w, rawValue |-> Undefined]
  /\ offset' = offset + 4
  /\ regIndex' = regIndex + 1
  /\ UNCHANGED <<input, pc, bytes, slaveAddress, functionCode, byteCount,
                 registerMap, ret>>
  /\ cs' = CsStep(cs, input)
  /\ UNCHANGED encVars

\* Variant of UnknownType: the index is not advanced either.
UnknownTypeStuck ==
  /\ pc = "loop" /\ LoopCond
  /\ HasMap /\ registerMap[regIndex].type \notin Types
  /\ it' = [kind |-> "unknown", regIndex |-> regIndex, offset |-> offset,
            read |-> <<>>, w |-> <<>>, rawValue |-> Undefined]
  /\ regIndex' = regIndex
  /\ UNCHANGED <<input, pc, bytes, slaveAddress, functionCode, byteCount,
                 registerMap, result, offset, ret>>
  /\ cs' = CsStep(cs, input)
  /\ UNCHANGED encVars

\* A definition whose type is none of the five: no branch runs, only
\* regIndex++ at the end of the loop body.
UnknownType ==
  /\ pc = "loop" /\ LoopCond
  /\ HasMap /\ registerMap[regIndex].type \notin Types
  /\ it' = [kind |-> "unknown", regIndex |-> regIndex, offset |-> offset,
            read |-> <<>>, w |-> <<>>, rawValue |-> Undefined]
  /\ regIndex' = regIndex + 1
  /\ UNCHANGED <<input, pc, bytes, slaveAddress, functionCode, byteCount,
                 registerMap, result, offset, ret>>
  /\ cs' = CsStep(cs, input)
  /\ UNCHANGED encVars

\* Section 5: return { data: { slaveAddress, functionCode, values: result } }
ReturnData ==
  /\ pc = "loop" /\ ~LoopCond
  /\ ret' = [keys |-> {"data"},
             data |-> [slaveAddress |-> slaveAddress,
                       functionCode |-> functionCode, values |-> result],
             errors |-> <<>>]
  /\ pc' = "done"
  /\ UNCHANGED <<input, bytes, slaveAddress, functionCode, byteCount,
                 registerMap, result, offset, regIndex, it>>
  /\ cs' = CsStep(cs, input)
  /\ UNCHANGED encVars

Next ==
  \/ ExtractBytes
  \/ ExtractThrows
  \/ NoPayloadBytes
  \/ ParseHeader
  \/ Fallback
  \/ DecodeUint16
  \/ DecodeInt16
  \/ DecodeUint32
  \/ DecodeInt32
  \/ DecodeFloat32
  \/ UnknownType
  \/ ReturnData

Spec == Init /\ [][Next]_vars

\* The arguments of the termination check: every address, every generated
\* byteCount and the largest one, register regions of every length up to
\* MaxData (the bytes themselves do not steer the loop), short frames and
\* calls without bytes.
IsTermInput(i) ==
  \/ \E a \in Addresses, bc \in 0..MaxByteCount \cup {254, 255}, n \in 0..MaxData :
       i = FromBytes(<<a, 3, bc>> \o [k \in 1..n |-> 255])
  \/ \E f \in ShortFrames \cup ExampleFrames : i = FromBytes(f)
  \/ \E p \in BOOLEAN, t \in ExampleTexts \cup {<<>>, <<Bad>>} :
       i = [bytes |-> [present |-> p, v |-> <<>>], frm_payload |-> t,
            payload_raw |-> <<>>]

TermInit ==
  /\ IsTermInput(input)
  /\ pc = "extract"
  /\ bytes = input.bytes
  /\ slaveAddress = Undefined
  /\ functionCode = Undefined
  /\ byteCount = Undefined
  /\ registerMap = EmptyMap
  /\ result = EmptyMap
  /\ offset = 0
  /\ regIndex = 0
  /\ it = NoIteration
  /\ ret = NoReturn
  /\ cs = CsStart(input)
  /\ EncIdle

\* A call runs to its end: the function is synchronous, every step that
\* can be taken is taken.
FairSpec == TermInit /\ [][Next]_vars /\ WF_vars(Next)

TypeOK ==
  /\ pc \in {"extract", "header", "loop", "done", "thrown"}
  /\ offset \in Nat
  /\ regIndex \in Nat

(***************************************************************************)
(* Vocabulary of the properties.                                           *)
(***************************************************************************)
\* The header has been parsed (bytes is a non-empty array).
Parsed == pc \in {"loop", "done"} /\ ~Missing(bytes)

\* byteCount as an integer, once the frame holds a third byte.
BC == Small(byteCount)

\* The last iteration read n bytes, all inside the array.
ReadInside(n) ==
  /\ Len(it.read) = n
  /\ it.offset + n <= Len(bytes.v)

\* The byte at zero-based position p of the frame.
ByteAt(p) == bytes.v[p + 1]

\* The definition the last iteration looked up.
ItMap == registerMap[it.regIndex]

\* C1: for a frame of at least 3 + byteCount bytes no iteration reads a
\* position >= 3 + byteCount, and the loop ends with the cursor at exactly
\* 3 + byteCount.
C1_ConsumesExactlyByteCount ==
  (Parsed /\ IsNumber(byteCount) /\ Len(bytes.v) >= 3 + BC) =>
     /\ it.kind # "none" => it.offset + Len(it.read) <= 3 + BC
     /\ pc = "done" => offset = 3 + BC

\* C2: when byteCount or the width of the register being decoded needs a
\* byte beyond the end of the array, the call returns errors and no data.
C2_OutOfRangeIsAnError ==
  (/\ pc = "done" /\ ~Missing(bytes) /\ IsNumber(byteCount)
   /\ \/ 3 + BC > Len(bytes.v)
      \/ it.offset + Len(it.read) > Len(bytes.v))
  => ret.keys = {"errors"}

\* C3: at the start of every iteration the logical index is the physical
\* register position (cursor - 3) / 2, so the index after a 4-byte register
\* is skipped and gets no register_<index> field.
C3_IndexIsPhysicalPosition ==
  /\ (/\ pc = "loop" /\ LoopCond /\ Len(bytes.v) >= 3 + BC
      /\ \A i \in DOMAIN registerMap : registerMap[i].type \in Types)
       => 2 * regIndex = offset - 3
  /\ (Parsed /\ it.kind \in {"uint32", "int32", "float32"})
       => RegisterName(it.regIndex + 1) \notin DOMAIN result

\* The last iteration read n bytes that all lie inside the register region
\* the header declares.
Declared(n) == IsNumber(byteCount) /\ it.offset + n <= 3 + BC

\* The bytes the last iteration read, as integers (all inside the array).
ReadBytes == [i \in 1..Len(it.read) |-> ByteAt(it.offset + i - 1)]

\* C4: an index without a definition is stored under register_<index> as
\* the unscaled value bytes[cursor] * 256 + bytes[cursor + 1], the cursor
\* advances by 2 and the index by 1; an unmapped address with byteCount = 2n
\* returns exactly the keys register_0 .. register_(n-1).
C4_FallbackRegister ==
  /\ (Parsed /\ it.kind # "none" /\ it.regIndex \notin DOMAIN registerMap)
       => it.kind = "fallback"
  /\ (Parsed /\ it.kind = "fallback") =>
       /\ it.regIndex \notin DOMAIN registerMap
       /\ RegisterName(it.regIndex) \in DOMAIN result
       /\ result[RegisterName(it.regIndex)] = it.rawValue
       /\ it.rawValue.k = "number" /\ it.rawValue.den = 1
       /\ it.rawValue.hi = 0 /\ it.rawValue.lo \in 0..65535
       /\ ReadInside(2) => Small(it.rawValue) = ReadBytes[1] * 256 + ReadBytes[2]
       /\ offset = it.offset + 2
       /\ regIndex = it.regIndex + 1
  /\ (/\ pc = "done" /\ ~Missing(bytes) /\ IsNumber(byteCount)
      /\ Small(slaveAddress) \notin DOMAIN deviceMap /\ BC % 2 = 0)
       => /\ ret.keys = {"data"}
          /\ DOMAIN ret.data.values = {RegisterName(i) : i \in 0..(BC \div 2) - 1}

\* Witness of C4: an unmapped address has returned two fallback registers
\* read from inside the frame, the first one above 255.
C4_Witness ==
  /\ pc = "done" /\ ~Missing(bytes) /\ IsNumber(byteCount)
  /\ Small(slaveAddress) = Unmapped /\ BC = 4 /\ Len(bytes.v) >= 7
  /\ it.kind = "fallback" /\ it.regIndex = 1
  /\ ret.keys = {"data"}
  /\ Small(ret.data.values[RegisterName(0)]) > 255

\* C5: every 4-byte type with endian = mixed reorders [b0,b1,b2,b3] to
\* [b2,b3,b0,b1] before the value is built; a mixed uint32 over 00 01 00 02
\* is 0x00020001.
C5_MixedWordSwap ==
  (/\ Parsed /\ it.kind \in {"uint32", "int32", "float32"} /\ ReadInside(4)
   /\ Declared(4) /\ ItMap.endian = "mixed")
  => /\ it.w = <<Number(ReadBytes[3]), Number(ReadBytes[4]),
                 Number(ReadBytes[1]), Number(ReadBytes[2])>>
     /\ it.kind = "uint32" =>
          it.rawValue = Mk(ReadBytes[3] * 256 + ReadBytes[4],
                           ReadBytes[1] * 256 + ReadBytes[2])

\* The window the claims expect for big and little: unchanged or reversed.
Expected32 ==
  IF ItMap.endian = "little"
  THEN <<ReadBytes[4], ReadBytes[3], ReadBytes[2], ReadBytes[1]>>
  ELSE ReadBytes

\* C6: an int32 window with unsigned combination u reconstructs to u below
\* 2^31 and to u - 2^32 otherwise, always within -2^31 .. 2^31 - 1.
C6_Int32TwosComplement ==
  (/\ Parsed /\ it.kind = "int32" /\ ReadInside(4) /\ Declared(4)
   /\ ItMap.endian \in {"big", "little"})
  => LET w  == Expected32
         uh == w[1] * 256 + w[2]
         ul == w[3] * 256 + w[4]
     IN  /\ it.rawValue = Mk(IF uh >= 32768 THEN uh - 65536 ELSE uh, ul)
         /\ it.rawValue.hi \in -32768..32767

\* C7: a uint32 window with endian big or little reconstructs to
\* w0 * 2^24 + w1 * 2^16 + w2 * 2^8 + w3 over the reordered window, never
\* negative and at most 4294967295.
C7_Uint32Unsigned ==
  (/\ Parsed /\ it.kind = "uint32" /\ ReadInside(4)
   /\ ItMap.endian \in {"big", "little"})
  => LET w == Expected32
     IN  /\ it.rawValue = Mk(w[1] * 256 + w[2], w[3] * 256 + w[4])
         /\ it.rawValue.k = "number" /\ it.rawValue.den = 1
         /\ it.rawValue.hi \in 0..65535 /\ it.rawValue.lo \in 0..65535
         /\ result[ItMap.name] = [it.rawValue EXCEPT !.den = ItMap.scale]

\* Witness of C7: a big-endian uint32 window with the top bit set was
\* decoded from inside the frame.
C7_Witness ==
  /\ Parsed /\ it.kind = "uint32" /\ ReadInside(4)
  /\ ItMap.endian = "big" /\ ReadBytes[1] >= 128
  /\ it.rawValue.hi >= 32768

\* C8: an int16 window with u = hi * 256 + lo after reordering reconstructs
\* to u below 32768 and to u - 65536 otherwise, the field is that value
\* divided by the scale, and 01 03 02 FF 9C gives temperature = -100 / 1000.
C8_Int16TwosComplement ==
  /\ (Parsed /\ it.kind = "int16" /\ ReadInside(2))
       => LET hi == IF ItMap.endian = "little" THEN ReadBytes[2] ELSE ReadBytes[1]
              lo == IF ItMap.endian = "little" THEN ReadBytes[1] ELSE ReadBytes[2]
              u  == hi * 256 + lo
              s  == IF u < 32768 THEN u ELSE u - 65536
          IN  /\ it.rawValue = Number(s)
              /\ Small(it.rawValue) \in -32768..32767
              /\ result[ItMap.name] = [Number(s) EXCEPT !.den = ItMap.scale]
  /\ (pc = "done" /\ ~Missing(bytes) /\ bytes.v = <<1, 3, 2, 255, 156>>)
       => /\ ret.keys = {"data"}
          /\ "temperature" \in DOMAIN ret.data.values
          /\ LET v == ret.data.values["temperature"]
             IN  /\ Small(v) = -100 /\ v.den = 1000
                 /\ Small(v) * 10 = (-1) * v.den

\* Witness of C8: the documented frame 01 03 02 FF 9C has been decoded.
C8_Witness ==
  /\ pc = "done" /\ ~Missing(bytes) /\ bytes.v = <<1, 3, 2, 255, 156>>
  /\ it.kind = "int16" /\ Small(it.rawValue) = -100

\* C9: a uint16 definition with a bitmask table yields a flags mapping with
\* one entry per table entry, the entry for bit k being true iff bit k of
\* the raw value is 1; no other bit is reported and no scale is applied.
C9_BitmaskExpansion ==
  /\ (Parsed /\ it.kind = "uint16" /\ ItMap.bitmask.present)
       => LET t   == ItMap.bitmask.table
              v   == result[ItMap.name]
              raw == Small(it.rawValue)
          IN  /\ raw \in 0..65535
              /\ ReadInside(2) =>
                   raw = IF ItMap.endian = "little"
                         THEN ReadBytes[2] * 256 + ReadBytes[1]
                         ELSE ReadBytes[1] * 256 + ReadBytes[2]
              /\ v.k = "object"
              /\ DOMAIN v.flags = {t[b] : b \in DOMAIN t}
              /\ Cardinality(DOMAIN v.flags) = Cardinality(DOMAIN t)
              /\ \A b \in DOMAIN t : v.flags[t[b]] = ((raw \div Pow2(b)) % 2 = 1)
  /\ (pc = "done" /\ ~Missing(bytes) /\ bytes.v = <<16, 3, 2, 0, 6>>)
       => /\ ret.keys = {"data"}
          /\ "flags" \in DOMAIN ret.data.values
          /\ ret.data.values["flags"].flags =
               [n \in {"system_ok", "heater_on", "fan_on", "error_flag"} |->
                  n \in {"heater_on", "fan_on"}]

\* Witness of C9: raw 0b00000110 has been expanded with the documented
\* four-entry table, whose definition carries a scale of 1000.
C9_Witness ==
  /\ pc = "done" /\ ~Missing(bytes) /\ bytes.v = <<16, 3, 2, 0, 6>>
  /\ it.kind = "uint16" /\ ItMap.bitmask.present /\ ItMap.scale = 1000
  /\ Small(it.rawValue) = 6

\* C10: a result is either data (slaveAddress = bytes[0], functionCode =
\* bytes[1], values) or a list of exactly one error and no data; without
\* any non-empty byte sequence the result is the error.
C10_ResultShape ==
  pc = "done" =>
    /\ \/ /\ ret.keys = {"data"}
          /\ DOMAIN ret.data = {"slaveAddress", "functionCode", "values"}
          /\ ret.data.slaveAddress = At(bytes.v, 0)
          /\ ret.data.functionCode = At(bytes.v, 1)
          /\ ret.data.values = result
          /\ IsNumber(ret.data.slaveAddress)
       \/ /\ ret.keys = {"errors"}
          /\ Len(ret.errors) = 1
          /\ ret.data = EmptyMap
    /\ (~bytes.present \/ Len(bytes.v) = 0) => ret.keys = {"errors"}
    /\ (/\ ~input.bytes.present \/ Len(input.bytes.v) = 0
        /\ input.frm_payload = <<>> /\ input.payload_raw = <<>>)
         => ret.keys = {"errors"}

\* Witness of C10: a call with empty bytes and no text field has returned.
C10_Witness ==
  /\ pc = "done"
  /\ input.bytes.present /\ Len(input.bytes.v) = 0
  /\ input.frm_payload = <<>> /\ input.payload_raw = <<>>
  /\ ret.keys = {"errors"}

(***************************************************************************)
(* encodeDownlink (src/downlinkPayloadFormatter.js).                       *)
(***************************************************************************)
\* Values of the generated values arrays and registers.
EncVals == {0, 10, 20, 256, 65535, -1, -32768}

EncSlaves == {Undefined, Number(0), Number(1), Number(257)}

EncFuncs == {Undefined, Number(5), Number(6), Number(16), Number(262)}

EncRegs == {Undefined, Number(0), Number(256), Number(65535), Number(66049)}

\* A values array of 128 registers: count * 2 no longer fits in a byte.
LongValues == [i \in 1..128 |-> 0]

\* The arguments of the model; values may be absent.
IsEncInput(i) ==
  \/ \E sl \in EncSlaves, fc \in EncFuncs, rg \in EncRegs, n \in 0..MaxVals :
       \E vs \in [1..n -> EncVals] :
         i = [slaveAddress |-> sl, functionCode |-> fc, register |-> rg,
              values |-> [present |-> TRUE, v |-> vs]]
  \/ \E sl \in EncSlaves, fc \in EncFuncs, rg \in EncRegs :
       i = [slaveAddress |-> sl, functionCode |-> fc, register |-> rg,
            values |-> [present |-> FALSE, v |-> <<>>]]
  \/ \E fc \in {Number(6), Number(16)} :
       i = [slaveAddress |-> Number(1), functionCode |-> fc,
            register |-> Number(0),
            values |-> [present |-> TRUE, v |-> LongValues]]

EncInit ==
  /\ input = FromBytes(<<>>)
  /\ pc = "idle"
  /\ bytes = input.bytes
  /\ slaveAddress = Undefined
  /\ functionCode = Undefined
  /\ byteCount = Undefined
  /\ registerMap = EmptyMap
  /\ result = EmptyMap
  /\ offset = 0
  /\ regIndex = 0
  /\ it = NoIteration
  /\ ret = NoReturn
  /\ cs = [CsStart(input) EXCEPT !.pc = "idle"]
  /\ IsEncInput(einput)
  /\ epc = "validate"
  /\ ebytes = <<>>
  /\ ei = 0
  /\ eret = NoEncReturn

\* Variant of EncFieldsMissing: fields tested for falsiness, so that 0 is
\* rejected as well.
EncFieldsFalsy ==
  \/ ~Truthy(einput.slaveAddress)
  \/ ~Truthy(einput.functionCode)
  \/ ~Truthy(einput.register)
  \/ ~einput.values.present

\* slave === undefined || func === undefined || reg === undefined || !vals
EncFieldsMissing ==
  \/ einput.slaveAddress = Undefined
  \/ einput.functionCode = Undefined
  \/ einput.register = Undefined
  \/ ~einput.values.present

\* Variant of HiByte: the shift left out.
HiByteNoShift(x) == Small(BitAnd(x, Number(255)))

\* (x >> 8) & 0xFF
HiByte(x) == Small(BitAnd(Shr(x, 8), Number(255)))

\* x & 0xFF
LoByte(x) == Small(BitAnd(x, Number(255)))

\* vals[i] with a zero-based index
ValAt(i) ==
  IF i >= 0 /\ i < Len(einput.values.v) THEN Number(einput.values.v[i + 1])
  ELSE Undefined

\* x || 0
OrZero(x) == IF Truthy(x) THEN x ELSE Number(0)

EncErrors(msg) == [keys |-> {"errors"}, bytes |-> <<>>, errors |-> <<msg>>]

EncBytes(b) == [keys |-> {"bytes"}, bytes |-> b, errors |-> <<>>]

\* A required field is missing: errors, before the buffer exists.
EncMissingFields ==
  /\ epc = "validate"
  /\ EncFieldsMissing
  /\ eret' = EncErrors("Missing required fields: slaveAddress, functionCode, register, values")
  /\ epc' = "done"
  /\ UNCHANGED <<einput, ebytes, ei>>
  /\ UNCHANGED decVars

\* Sections 1 and 2: slave address, function code, register address.
EncHeader ==
  /\ epc = "validate"
  /\ ~EncFieldsMissing
  /\ ebytes' = <<LoByte(einput.slaveAddress), LoByte(einput.functionCode),
                 HiByte(einput.register), LoByte(einput.register)>>
  /\ epc' = "dispatch"
  /\ UNCHANGED <<einput, ei, eret>>
  /\ UNCHANGED decVars

\* Variant of EncWriteSingle: the last value written instead of the first.
EncWriteSingleLast ==
  /\ epc = "dispatch"
  /\ einput.functionCode = Number(6)
  /\ LET value == OrZero(ValAt(Len(einput.values.v) - 1))
     IN  /\ ebytes' = ebytes \o <<HiByte(value), LoByte(value)>>
         /\ eret' = EncBytes(ebytes')
  /\ epc' = "done"
  /\ UNCHANGED <<einput, ei>>
  /\ UNCHANGED decVars

\* Section 3: if (func === 6), write vals[0] || 0 and return.
EncWriteSingle ==
  /\ epc = "dispatch"
  /\ einput.functionCode = Number(6)
  /\ LET value == OrZero(ValAt(0))
     IN  /\ ebytes' = ebytes \o <<HiByte(value), LoByte(value)>>
         /\ eret' = EncBytes(ebytes')
  /\ epc' = "done"
  /\ UNCHANGED <<einput, ei>>
  /\ UNCHANGED decVars

\* Variant of EncWriteMultiple: the byte count written as the register
\* count.
EncWriteMultipleCountOnly ==
  /\ epc = "dispatch"
  /\ einput.functionCode # Number(6)
  /\ einput.functionCode = Number(16)
  /\ LET count == Number(Len(einput.values.v))
     IN  ebytes' = ebytes \o <<HiByte(count), LoByte(count), Small(count)>>
  /\ ei' = 0
  /\ epc' = "values"
  /\ UNCHANGED <<einput, eret>>
  /\ UNCHANGED decVars

\* Section 4: if (func === 16), register count and byte count.
EncWriteMultiple ==
  /\ epc = "dispatch"
  /\ einput.functionCode # Number(6)
  /\ einput.functionCode = Number(16)
  /\ LET count == Number(Len(einput.values.v))
     IN  ebytes' = ebytes \o <<HiByte(count), LoByte(count), Small(Times(count, 2))>>
  /\ ei' = 0
  /\ epc' = "values"
  /\ UNCHANGED <<einput, eret>>
  /\ UNCHANGED decVars

\* for (var i = 0; i < count; i++): one register value, big-endian.
EncPushValue ==
  /\ epc = "values"
  /\ ei < Len(einput.values.v)
  /\ ebytes' = ebytes \o <<HiByte(ValAt(ei)), LoByte(ValAt(ei))>>
  /\ ei' = ei + 1
  /\ UNCHANGED <<einput, epc, eret>>
  /\ UNCHANGED decVars

\* The loop is over: return { bytes: bytes }.
EncReturnMultiple ==
  /\ epc = "values"
  /\ ei >= Len(einput.values.v)
  /\ eret' = EncBytes(ebytes)
  /\ epc' = "done"
  /\ UNCHANGED <<einput, ebytes, ei>>
  /\ UNCHANGED decVars

\* Variant of EncUnsupported: the buffer is returned next to the error.
EncUnsupportedPartial ==
  /\ epc = "dispatch"
  /\ einput.functionCode # Number(6)
  /\ einput.functionCode # Number(16)
  /\ eret' = [keys |-> {"errors", "bytes"}, bytes |-> ebytes,
              errors |-> <<"Unsupported function code. Use 6 (0x06) or 16 (0x10).">>]
  /\ epc' = "done"
  /\ UNCHANGED <<einput, ebytes, ei>>
  /\ UNCHANGED decVars

\* Section 5: any other function code.
EncUnsupported ==
  /\ epc = "dispatch"
  /\ einput.functionCode # Number(6)
  /\ einput.functionCode # Number(16)
  /\ eret' = EncErrors("Unsupported function code. Use 6 (0x06) or 16 (0x10).")
  /\ epc' = "done"
  /\ UNCHANGED <<einput, ebytes, ei>>
  /\ UNCHANGED decVars

EncNext ==
  \/ EncMissingFields
  \/ EncHeader
  \/ EncWriteSingle
  \/ EncWriteMultiple
  \/ EncPushValue
  \/ EncReturnMultiple
  \/ EncUnsupported

EncSpec == EncInit /\ [][EncNext]_vars

EncTypeOK ==
  /\ epc \in {"validate", "dispatch", "values", "done"}
  /\ ei \in Nat

(***************************************************************************)
(* Vocabulary of the encoder properties.                                   *)
(***************************************************************************)
\* All four fields are present in the argument.
EncAllPresent ==
  /\ einput.slaveAddress # Undefined
  /\ einput.functionCode # Undefined
  /\ einput.register # Undefined
  /\ einput.values.present

\* The fields as integers.
ESlave == Small(einput.slaveAddress)

EReg == Small(einput.register)

EVals == einput.values.v

\* The high and the low byte of the 16-bit two's complement form of n.
Hi8(n) == (n \div 256) % 256

Lo8(n) == n % 256

\* C11: for functionCode = 6 the result is exactly the 6 bytes slave & 0xFF,
\* 6, register high, register low, value high, value low, where the value
\* is values[0] or 0 when values is empty; later values play no part.
C11_WriteSingleFrame ==
  (epc = "done" /\ EncAllPresent /\ einput.functionCode = Number(6))
  => LET v == IF Len(EVals) = 0 THEN 0 ELSE EVals[1]
     IN  /\ eret.keys = {"bytes"}
         /\ eret.bytes = <<Lo8(ESlave), 6, Hi8(EReg), Lo8(EReg), Hi8(v), Lo8(v)>>

\* Witness of C11: a single-register write with two values has returned,
\* the second value different from the first.
C11_Witness ==
  /\ epc = "done" /\ EncAllPresent /\ einput.functionCode = Number(6)
  /\ Len(EVals) = 2 /\ EVals[1] = 256 /\ EVals[2] = 65535
  /\ eret.keys = {"bytes"}

\* C12: for functionCode = 16 with n values the result has 7 + 2n elements:
\* slave, 16, register high and low, count high and low (count = n), byte
\* count 2n, then every value big-endian in input order.
C12_WriteMultipleFrame ==
  /\ (epc = "done" /\ EncAllPresent /\ einput.functionCode = Number(16))
       => LET n == Len(EVals)
              b == eret.bytes
          IN  /\ eret.keys = {"bytes"}
              /\ Len(b) = 7 + 2 * n
              /\ SubSeq(b, 1, 7) = <<Lo8(ESlave), 16, Hi8(EReg), Lo8(EReg),
                                     Hi8(n), Lo8(n), 2 * n>>
              /\ \A i \in 0..n - 1 :
                   /\ b[7 + 2 * i + 1] = Hi8(EVals[i + 1])
                   /\ b[8 + 2 * i + 1] = Lo8(EVals[i + 1])
  /\ (/\ epc = "done" /\ EncAllPresent /\ einput.functionCode = Number(16)
      /\ EReg = 0 /\ EVals = <<10, 20>>)
       => eret.bytes = <<Lo8(ESlave), 16, 0, 0, 0, 2, 4, 0, 10, 0, 20>>

\* Witness of C12: register = 0, values = [10, 20] has been encoded.
C12_Witness ==
  /\ epc = "done" /\ EncAllPresent /\ einput.functionCode = Number(16)
  /\ ESlave = 1 /\ EReg = 0 /\ EVals = <<10, 20>>
  /\ eret.keys = {"bytes"} /\ Len(eret.bytes) = 11

\* C13: every element of a returned bytes list lies in 0..255, for every
\* length of values.
C13_BytesInRange ==
  (epc = "done" /\ "bytes" \in eret.keys)
  => \A i \in 1..Len(eret.bytes) : eret.bytes[i] \in 0..255

\* C14: when any of the four fields is missing the result is one error and
\* no bytes, and no byte has been put into the buffer; 0 for slaveAddress
\* and 0 for register are present values.
C14_MissingFields ==
  /\ (epc = "done" /\ ~EncAllPresent)
       => /\ eret.keys = {"errors"}
          /\ Len(eret.errors) = 1
          /\ eret.bytes = <<>>
          /\ ebytes = <<>>
  /\ (/\ epc = "done" /\ EncAllPresent
      /\ einput.functionCode \in {Number(6), Number(16)})
       => eret.keys = {"bytes"}

\* Witness of C14: a call without a register has returned its error.
C14_Witness ==
  /\ epc = "done"
  /\ einput.register = Undefined
  /\ einput.slaveAddress = Number(0) /\ einput.values.present
  /\ einput.functionCode = Number(6)
  /\ eret.keys = {"errors"}

\* C15: a function code other than 6 and 16 gives one error and no bytes,
\* although the header is already in the buffer; no result holds both bytes
\* and errors.
C15_UnsupportedFunctionCode ==
  /\ (/\ epc = "done" /\ EncAllPresent
      /\ einput.functionCode \notin {Number(6), Number(16)})
       => /\ eret.keys = {"errors"}
          /\ Len(eret.errors) = 1
          /\ eret.bytes = <<>>
  /\ epc = "done" => eret.keys \in {{"bytes"}, {"errors"}}

\* Witness of C15: function code 5 was rejected after the four header bytes
\* were pushed.
C15_Witness ==
  /\ epc = "done" /\ EncAllPresent
  /\ einput.functionCode = Number(5)
  /\ Len(ebytes) = 4
  /\ eret.keys = {"errors"}

\* C16: the frame of functionCode = 6, register R, values [V] read back with
\* the decoder's (hi << 8) | lo gives V from bytes 4-5 and R from bytes 2-3
\* for R, V in 0..65535, and the int16 reconstruction gives V back for V in
\* -32768..-1.
C16_RoundTrip ==
  (/\ epc = "done" /\ EncAllPresent /\ einput.functionCode = Number(6)
   /\ Len(EVals) = 1 /\ EReg \in 0..65535)
  => LET b == eret.bytes
         V == EVals[1]
     IN  /\ Uint16Raw(<<Number(b[3]), Number(b[4])>>) = Number(EReg)
         /\ V \in 0..65535 =>
              Uint16Raw(Reorder16(<<Number(b[5]), Number(b[6])>>, "big")) = Number(V)
         /\ V \in -32768..-1 =>
              Int16Raw(Reorder16(<<Number(b[5]), Number(b[6])>>, "big")) = Number(V)

\* Witness of C16: register 256 and value 65535 have made the round trip.
C16_Witness ==
  /\ epc = "done" /\ EncAllPresent /\ einput.functionCode = Number(6)
  /\ EReg = 256 /\ EVals = <<65535>>
  /\ eret.keys = {"bytes"}

\* C17: the register loop terminates.  Every iteration moves the cursor by
\* 2 or 4 and the index by 1, or, for a definition of unrecognised type,
\* stores nothing and moves only the index; the call returns with the
\* cursor at or past 3 + byteCount, and a frame shorter than 3 bytes runs
\* no iteration.
C17_LoopTerminates ==
  /\ <>(pc \in {"done", "thrown"})
  /\ [][(pc = "loop" /\ pc' = "loop") =>
          /\ regIndex' = regIndex + 1
          /\ \/ offset' - offset \in {2, 4}
             \/ /\ offset' = offset
                /\ result' = result
                /\ regIndex \in DOMAIN registerMap
                /\ registerMap[regIndex].type \notin Types]_vars
  /\ [](pc = "done" /\ ~Missing(bytes) =>
          /\ IsNumber(byteCount) => offset >= 3 + BC
          /\ Len(bytes.v) < 3 => it.kind = "none" /\ offset = 3)

\* Witness of C17: a call has returned after an iteration over a definition
\* of unrecognised type.
C17_Witness ==
  /\ pc = "done" /\ ~Missing(bytes)
  /\ Small(slaveAddress) = 16
  /\ regIndex >= 2 /\ offset >= 3 + BC
  /\ "text" \notin DOMAIN result

(***************************************************************************)
(* The two decoders side by side.                                          *)
(***************************************************************************)
\* C18: on the same argument the TTN/ChirpStack decoder is at the same
\* place as the TTN decoder after every step, with the same bytes, header
\* fields, cursor, logical index and partial values; both return the same
\* data object, and where both return errors only the message text differs.
C18_DecodersEquivalent ==
  /\ cs.pc = pc
  /\ cs.bytes = bytes
  /\ cs.slaveAddress = slaveAddress
  /\ cs.functionCode = functionCode
  /\ cs.byteCount = byteCount
  /\ cs.registerMap = registerMap
  /\ cs.offset = offset
  /\ cs.regIndex = regIndex
  /\ cs.result = result
  /\ cs.ret.keys = ret.keys
  /\ cs.ret.data = ret.data
  /\ cs.ret.errors # ret.errors =>
       /\ Missing(bytes)
       /\ ret.errors = <<"No payload bytes found.">>
       /\ cs.ret.errors = <<CsNoPayloadText>>

\* Witness of C18: both decoders have returned the data of a frame of
\* device 2 whose float32 register (word order "mixed") was decoded.
C18_Witness ==
  /\ pc = "done" /\ cs.pc = "done"
  /\ "data" \in cs.ret.keys
  /\ Small(slaveAddress) = 2
  /\ "voc" \in DOMAIN cs.ret.data.values
  /\ cs.ret.data.values["voc"].hi # cs.ret.data.values["voc"].lo

====
